---- MODULE Spec2Model ----
(***************************************************************************)
(* Model of the rumdl language-server extension (src/src/lib.rs): binary   *)
(* resolution (get_binary), installation (install_binary), asset selection *)
(* and stale-version cleanup.                                              *)
(*                                                                         *)
(* Strings are finite sequences of symbols.  A symbol is a piece of text   *)
(* that no operation of the program looks inside ("rumdl", "x86_64", a     *)
(* fixed piece of an error message) or a single character the program      *)
(* does look for ("/", "\\", ".", "-").  format! is concatenation,         *)
(* ends_with / starts_with / contains are computed on the sequences.       *)
(***************************************************************************)
EXTENDS Naturals, Sequences, FiniteSets, TLC

\* ------------------------------------------------------------------------
\* Bounds of the model
\* ------------------------------------------------------------------------

\* Longest asset list of a release while whole calls are explored.
MaxListed == 1

\* Longest asset list of a release while asset selection is explored.
MaxAssets == 2

\* ------------------------------------------------------------------------
\* Strings, Option and Result
\* ------------------------------------------------------------------------

None == <<>>
Some(x) == <<x>>
IsSome(o) == o /= <<>>
Unwrap(o) == o[1]

\* A Result; log lists the host calls and searches made while computing it.
Ok(v) == [ok |-> TRUE, val |-> v, err |-> <<>>, log |-> <<>>]
Err(e) == [ok |-> FALSE, val |-> <<>>, err |-> e, log |-> <<>>]

\* One entry of a call's log: the operation, its argument, a second argument
\* (or <<>>) and whether it succeeded / found something.
Ev(op, arg, aux, ok) == [op |-> op, arg |-> arg, aux |-> aux, ok |-> ok]

SetMin(S) == CHOOSE x \in S : \A y \in S : x <= y

\* str::ends_with
EndsWith(s, suffix) ==
    /\ Len(suffix) <= Len(s)
    /\ SubSeq(s, Len(s) - Len(suffix) + 1, Len(s)) = suffix

\* str::starts_with
StartsWith(s, prefix) ==
    /\ Len(prefix) <= Len(s)
    /\ SubSeq(s, 1, Len(prefix)) = prefix

\* str::contains(char)
ContainsChar(s, c) == \E i \in 1..Len(s) : s[i] = c

\* str::contains(&str), used to read error texts
ContainsStr(s, sub) ==
    \E i \in 0..Len(s) :
        /\ i + Len(sub) <= Len(s)
        /\ SubSeq(s, i + 1, i + Len(sub)) = sub

\* Index of the last occurrence of c in s, 0 when there is none.
LastIndexOf(s, c) ==
    IF ContainsChar(s, c)
    THEN CHOOSE i \in 1..Len(s) :
            /\ s[i] = c
            /\ \A j \in (i + 1)..Len(s) : s[j] /= c
    ELSE 0

\* PathBuf::join for a relative second component.
PathJoin(base, component) ==
    IF base = <<>> THEN component
    ELSE IF base[Len(base)] = "/" THEN base \o component
    ELSE base \o <<"/">> \o component

\* PathBuf::set_extension: replaces (or adds) the extension of the last
\* component of the path.
SetExtension(path, ext) ==
    LET slash == LastIndexOf(path, "/")
        parent == SubSeq(path, 1, slash)
        file == SubSeq(path, slash + 1, Len(path))
        dot == LastIndexOf(file, ".")
        stem == IF dot > 1 THEN SubSeq(file, 1, dot - 1) ELSE file
    IN  IF file = <<>> THEN path ELSE parent \o stem \o <<".">> \o ext

\* ------------------------------------------------------------------------
\* Program constants (lib.rs:18-20)
\* ------------------------------------------------------------------------

NAME == <<"rumdl">>
NAME_PREFIX == <<"rumdl", "-">>
RUMDL_GITHUB_REPO == <<"rvben", "/", "rumdl">>

\* zed::Os and zed::Architecture
Platforms == {"Mac", "Linux", "Windows"}
Architectures == {"Aarch64", "X86", "X8664"}

\* ------------------------------------------------------------------------
\* Pure helpers of impl Rumdl
\* ------------------------------------------------------------------------

\* arch_name falling back to "x86_64" for any architecture but Aarch64.
arch_name_default_x86_64(arch) ==
    IF arch = "Aarch64" THEN Ok(<<"aarch64">>) ELSE Ok(<<"x86_64">>)

\* arch_name (lib.rs:27-37); {arch:?} prints the variant's name.
arch_name(arch) ==
    IF arch = "X8664" THEN Ok(<<"x86_64">>)
    ELSE IF arch = "Aarch64" THEN Ok(<<"aarch64">>)
    ELSE Err(<<"Unsupported architecture: ", arch>>)

LinuxGnu == <<"unknown", "-", "linux", "-", "gnu">>
LinuxMusl == <<"unknown", "-", "linux", "-", "musl">>
AppleDarwin == <<"apple", "-", "darwin">>
WindowsMsvc == <<"pc", "-", "windows", "-", "msvc">>
TarGz == <<"tar", ".", "gz">>
Zip == <<"zip">>

\* os_asset_info (lib.rs:39-49)
os_asset_info(platform) ==
    IF platform = "Mac" THEN [os_str |-> AppleDarwin, file_ext |-> TarGz]
    ELSE IF platform = "Linux" THEN [os_str |-> LinuxGnu, file_ext |-> TarGz]
    ELSE [os_str |-> WindowsMsvc, file_ext |-> Zip]

\* The suffix find_release_asset looks for (lib.rs:57).
AssetSuffix(arch_str, os_str, file_ext) ==
    arch_str \o <<"-">> \o os_str \o <<".">> \o file_ext

NoAsset == [name |-> <<>>, download_url |-> <<>>]

\* find_release_asset (lib.rs:51-70): the first asset, in list order, whose
\* name ends with "{arch_name}-{os_str}.{file_ext}".
find_release_asset(release, arch_str, os_str, file_ext) ==
    LET asset_name == AssetSuffix(arch_str, os_str, file_ext)
        hits == {i \in 1..Len(release.assets) :
                    EndsWith(release.assets[i].name, asset_name)}
        search == Ev("find_release_asset", asset_name, <<>>, hits /= {})
    IN  IF hits = {}
        THEN [Err(<<"No compatible Rumdl binary found for ">>
                  \o arch_str \o <<"-">> \o os_str)
                EXCEPT !.log = <<search>>]
        ELSE [Ok(release.assets[SetMin(hits)]) EXCEPT !.log = <<search>>]

\* find_linux_musl_asset returning the musl error alone.
find_linux_musl_asset_plain(release, arch_str, file_ext, gnu_error) ==
    find_release_asset(release, arch_str, LinuxMusl, file_ext)

\* find_linux_musl_asset (lib.rs:72-80)
find_linux_musl_asset(release, arch_str, file_ext, gnu_error) ==
    LET musl == find_release_asset(release, arch_str, LinuxMusl, file_ext)
    IN  IF musl.ok THEN musl
        ELSE [musl EXCEPT
                !.err = @ \o <<"; gnu attempt failed: ">> \o gnu_error]

\* find_release_asset_for_platform with the musl attempt of lib.rs:95-100 on
\* every platform.
find_release_asset_for_platform_musl_everywhere(release, arch_str, platform) ==
    LET info == os_asset_info(platform)
        gnu_asset == find_release_asset(release, arch_str,
                                        info.os_str, info.file_ext)
        musl_asset == find_linux_musl_asset(release, arch_str,
                                            info.file_ext, gnu_asset.err)
    IN  IF gnu_asset.ok THEN gnu_asset
        ELSE [musl_asset EXCEPT !.log = gnu_asset.log \o @]

\* find_release_asset_for_platform preferring the musl asset on Linux.
find_release_asset_for_platform_musl_first(release, arch_str, platform) ==
    LET info == os_asset_info(platform)
        gnu_asset == find_release_asset(release, arch_str,
                                        info.os_str, info.file_ext)
        musl_asset == find_release_asset(release, arch_str,
                                         LinuxMusl, info.file_ext)
    IN  IF platform /= "Linux" THEN gnu_asset
        ELSE IF musl_asset.ok THEN musl_asset
        ELSE [gnu_asset EXCEPT !.log = musl_asset.log \o @]

\* find_release_asset_for_platform (lib.rs:82-102)
find_release_asset_for_platform(release, arch_str, platform) ==
    LET info == os_asset_info(platform)
        gnu_asset == find_release_asset(release, arch_str,
                                        info.os_str, info.file_ext)
        musl_asset == find_linux_musl_asset(release, arch_str,
                                            info.file_ext, gnu_asset.err)
    IN  IF platform /= "Linux" THEN gnu_asset
        ELSE IF gnu_asset.ok THEN gnu_asset
        ELSE [musl_asset EXCEPT !.log = gnu_asset.log \o @]

\* build_versioned_binary_path without the Windows branch of lib.rs:119-121.
build_versioned_binary_path_no_exe(release_version, platform) ==
    IF ContainsChar(release_version, "/")
    THEN Err(<<"Invalid release version: contains '/'">>)
    ELSE IF ContainsChar(release_version, "\\")
    THEN Err(<<"Invalid release version: contains '\\\\'">>)
    ELSE LET version_dir == NAME \o <<"-">> \o release_version
         IN  Ok([version_dir |-> version_dir,
                 binary_path |-> PathJoin(version_dir, NAME)])

\* build_versioned_binary_path without the backslash test of lib.rs:112.
build_versioned_binary_path_slash_only(release_version, platform) ==
    IF ContainsChar(release_version, "/")
    THEN Err(<<"Invalid release version: contains '/'">>)
    ELSE LET version_dir == NAME \o <<"-">> \o release_version
             joined == PathJoin(version_dir, NAME)
             binary_path == IF platform = "Windows"
                            THEN SetExtension(joined, <<"exe">>)
                            ELSE joined
         IN  Ok([version_dir |-> version_dir, binary_path |-> binary_path])

\* build_versioned_binary_path (lib.rs:104-124)
build_versioned_binary_path(release_version, platform) ==
    IF ContainsChar(release_version, "/")
    THEN Err(<<"Invalid release version: contains '/'">>)
    ELSE IF ContainsChar(release_version, "\\")
    THEN Err(<<"Invalid release version: contains '\\\\'">>)
    ELSE LET version_dir == NAME \o <<"-">> \o release_version
             joined == PathJoin(version_dir, NAME)
             binary_path == IF platform = "Windows"
                            THEN SetExtension(joined, <<"exe">>)
                            ELSE joined
         IN  Ok([version_dir |-> version_dir, binary_path |-> binary_path])

\* install_binary, lib.rs:240-244: platform lookup, architecture mapping,
\* asset selection and path construction, each ending the call on Err (?).
ResolveRelease(release, platform, arch) ==
    LET none == [ok |-> FALSE, err |-> <<>>, asset |-> NoAsset,
                 version_dir |-> <<>>, binary_path |-> <<>>, log |-> <<>>]
        a == arch_name(arch)
        s == find_release_asset_for_platform(release, a.val, platform)
        b == build_versioned_binary_path(release.version, platform)
    IN  IF ~a.ok THEN [none EXCEPT !.err = a.err]
        ELSE IF ~s.ok THEN [none EXCEPT !.err = s.err, !.log = s.log]
        ELSE IF ~b.ok
        THEN [none EXCEPT !.err = b.err, !.asset = s.val, !.log = s.log]
        ELSE [ok |-> TRUE, err |-> <<>>, asset |-> s.val,
              version_dir |-> b.val.version_dir,
              binary_path |-> b.val.binary_path, log |-> s.log]

\* ------------------------------------------------------------------------
\* The host: releases, worktree, working directory
\* ------------------------------------------------------------------------

V1 == <<"1", ".", "2", ".", "3">>
V2 == <<"1", ".", "3", ".", "0">>
VSlash == <<".", ".", "/", "evil">>
VBackslash == <<"1", "\\", "2">>
Versions == {V1, V2, VSlash, VBackslash}

Asset(name) ==
    [name |-> name,
     download_url |-> <<"https://github.com/rvben/rumdl/releases/download/">>
                      \o name]

AssetNames ==
    { <<"rumdl", "-", "x86_64", "-">> \o LinuxGnu \o <<".">> \o TarGz,
      <<"rumdl", "-", "x86_64", "-">> \o LinuxMusl \o <<".">> \o TarGz,
      <<"alt", "-", "x86_64", "-">> \o LinuxGnu \o <<".">> \o TarGz,
      <<"rumdl", "-", "x86_64", "-">> \o LinuxGnu \o <<".">> \o TarGz
          \o <<".", "sha256">>,
      <<"rumdl", "-", "aarch64", "-">> \o AppleDarwin \o <<".">> \o TarGz,
      <<"rumdl", "-", "x86_64", "-">> \o WindowsMsvc \o <<".">> \o Zip }

AssetLists(longest) ==
    UNION { [1..n -> {Asset(a) : a \in AssetNames}] : n \in 0..longest }

\* What latest_github_release returns on success while whole calls are
\* explored: any version, an asset list of up to MaxListed assets.
Releases == [version : Versions, assets : AssetLists(MaxListed)]

\* What it returns while asset selection is explored: every asset list of
\* up to MaxAssets assets.
SelectReleases == [version : {V1, VSlash}, assets : AssetLists(MaxAssets)]
\* What it returns while concurrent calls are explored: one version with
\* its Linux asset.
ConcurrentReleases ==
    { [version |-> V1,
       assets |-> << Asset(<<"rumdl", "-", "x86_64", "-">> \o LinuxGnu
                           \o <<".">> \o TarGz) >>] }

NoRelease == [version |-> <<>>, assets |-> <<>>]

\* What worktree.which(NAME) and worktree.shell_env() can return.
LocalPath == <<"/", "usr", "/", "local", "/", "bin", "/", "rumdl">>
WhichResults == {None, Some(LocalPath)}
ShellEnvs == {<<>>, << <<"PATH", "/usr/local/bin">> >>}

\* The entries the working directory can hold: the version directories, a
\* directory left by an older naming scheme and a file that is no version
\* directory.  Every name is Unicode text, so file_name().into_string()
\* (lib.rs:182) succeeds on each.
OldDir == <<"rumdl", "-", "old">>
LogFile == <<"rumdl", ".", "log">>
VersionDirs == {NAME \o <<"-">> \o v : v \in {V1, V2}}
Entries == VersionDirs \cup {OldDir, LogFile}

\* An entry is absent, present without the host's binary file in it
\* ("partial"), or present with it ("full").
EntryStates == {"absent", "partial", "full"}

\* The binary file the release archive holds on this platform.
BinaryFile(platform) ==
    IF platform = "Windows" THEN <<"rumdl", ".", "exe">> ELSE <<"rumdl">>

\* Path::exists for a relative path of the working directory.
Exists(dir, path, platform) ==
    \E e \in Entries :
        /\ dir[e] = "full"
        /\ path = PathJoin(e, BinaryFile(platform))

Procs == {1, 2}

VARIABLES
    platform,       \* zed::current_platform().0
    arch,           \* zed::current_platform().1
    mode,           \* "sequential": one resolution call at a time
    fs,             \* the working directory: entry -> state
    binary_cache,   \* Rumdl.binary_cache of each extension instance
    call,           \* the resolution call each instance is in
    last_failed     \* whether the instance's previous call returned Err

vars == <<platform, arch, mode, fs, binary_cache, call, last_failed>>

NoCommand == [command |-> <<>>, args |-> <<>>, env |-> <<>>]

\* Path::to_str: the path's text; every path of the model was built from
\* strings, so it is Some.
PathToStr(path) == Some(path)

\* language_server_command with the environment left out of the command.
language_server_command_no_env(binary) ==
    [command |-> Unwrap(PathToStr(binary.path)),
     args |-> <<"server">>,
     env |-> <<>>]

\* language_server_command (lib.rs:281-290) on the binary get_binary
\* returned: the zed::Command.
language_server_command(binary) ==
    [command |-> Unwrap(PathToStr(binary.path)),
     args |-> <<"server">>,
     env |-> binary.env]

IdleCall ==
    [pc |-> "idle", which |-> None, shell_env |-> <<>>,
     cache0 |-> None, fs0 |-> [e \in Entries |-> "absent"],
     release |-> NoRelease, resolved |-> FALSE,
     asset |-> NoAsset, version_dir |-> <<>>, binary_path |-> <<>>,
     todo |-> {}, log |-> <<>>,
     kind |-> "", path |-> <<>>, env |-> <<>>, err |-> <<>>,
     command |-> NoCommand]

\* get_binary returns Ok(RumdlBinary { path, env }) and
\* language_server_command returns the command built from it.
ReturnOk(c, kind, path, env) ==
    [c EXCEPT !.pc = "done", !.kind = kind, !.path = path, !.env = env,
              !.release = NoRelease, !.todo = {},
              !.command = language_server_command(
                              [path |-> path, env |-> env])]

\* The call returns Err(err).
ReturnErr(c, err) ==
    [c EXCEPT !.pc = "done", !.kind = "Failed", !.err = err,
              !.release = NoRelease, !.todo = {}]

Logged(c, events) == [c EXCEPT !.log = @ \o events]

\* The working directories an extension can find at start: whatever earlier
\* runs left there.
InitialDirs ==
    { d \in [Entries -> EntryStates] :
        /\ d[OldDir] \in {"absent", "partial"}
        /\ d[LogFile] \in {"absent", "partial"} }

InitCommon ==
    /\ platform \in Platforms
    /\ arch \in Architectures
    /\ fs \in InitialDirs
    /\ binary_cache = [p \in Procs |-> None]
    /\ call = [p \in Procs |-> IdleCall]
    /\ last_failed = [p \in Procs |-> FALSE]

Init == InitCommon /\ mode = "sequential"

\* Concurrent calls are explored on one host, from a working directory that
\* holds at most version directories.
InitConcurrent ==
    /\ InitCommon
    /\ mode = "concurrent"
    /\ platform = "Linux"
    /\ arch = "X8664"
    /\ fs[OldDir] = "absent"
    /\ fs[LogFile] = "absent"

\* ------------------------------------------------------------------------
\* get_binary (lib.rs:198-220)
\* ------------------------------------------------------------------------

\* get_binary with the cache consulted before the command-path lookup.
get_binary_cache_first(which, shell_env, cache, dir, os) ==
    LET lookup == Ev("which", NAME, <<>>, IsSome(which))
        probe == Ev("exists", Unwrap(cache), <<>>,
                    Exists(dir, Unwrap(cache), os))
    IN  IF IsSome(cache) /\ Exists(dir, Unwrap(cache), os)
        THEN [kind |-> "CacheHit", path |-> Unwrap(cache), env |-> <<>>,
              log |-> <<probe>>]
        ELSE IF IsSome(which)
        THEN [kind |-> "LocalFound", path |-> Unwrap(which),
              env |-> shell_env,
              log |-> <<lookup, Ev("shell_env", <<>>, <<>>, TRUE)>>]
        ELSE [kind |-> "install", path |-> <<>>, env |-> <<>>,
              log |-> IF IsSome(cache) THEN <<probe, lookup>>
                      ELSE <<lookup>>]

\* get_binary without the cache branch of lib.rs:210-217: every call whose
\* local lookup fails goes on to install_binary.
get_binary_no_cache(which, shell_env, cache, dir, os) ==
    LET lookup == Ev("which", NAME, <<>>, IsSome(which))
    IN  IF IsSome(which)
        THEN [kind |-> "LocalFound", path |-> Unwrap(which),
              env |-> shell_env,
              log |-> <<lookup, Ev("shell_env", <<>>, <<>>, TRUE)>>]
        ELSE [kind |-> "install", path |-> <<>>, env |-> <<>>,
              log |-> <<lookup>>]

\* get_binary returning the cached path without path.exists().
get_binary_trust_cache(which, shell_env, cache, dir, os) ==
    LET lookup == Ev("which", NAME, <<>>, IsSome(which))
    IN  IF IsSome(which)
        THEN [kind |-> "LocalFound", path |-> Unwrap(which),
              env |-> shell_env,
              log |-> <<lookup, Ev("shell_env", <<>>, <<>>, TRUE)>>]
        ELSE IF IsSome(cache)
        THEN [kind |-> "CacheHit", path |-> Unwrap(cache), env |-> <<>>,
              log |-> <<lookup>>]
        ELSE [kind |-> "install", path |-> <<>>, env |-> <<>>,
              log |-> <<lookup>>]

\* get_binary (lib.rs:203-219) on the answers of worktree.which and
\* worktree.shell_env, the cache and the working directory: what it returns,
\* or "install" when it goes on to install_binary, and the host calls made.
get_binary(which, shell_env, cache, dir, os) ==
    LET lookup == Ev("which", NAME, <<>>, IsSome(which))
        probe == Ev("exists", Unwrap(cache), <<>>,
                    Exists(dir, Unwrap(cache), os))
    IN  IF IsSome(which)
        THEN [kind |-> "LocalFound", path |-> Unwrap(which),
              env |-> shell_env,
              log |-> <<lookup, Ev("shell_env", <<>>, <<>>, TRUE)>>]
        ELSE IF IsSome(cache) /\ Exists(dir, Unwrap(cache), os)
        THEN [kind |-> "CacheHit", path |-> Unwrap(cache), env |-> <<>>,
              log |-> <<lookup, probe>>]
        ELSE [kind |-> "install", path |-> <<>>, env |-> <<>>,
              log |-> IF IsSome(cache) THEN <<lookup, probe>>
                      ELSE <<lookup>>]

GetBinary(p) ==
    /\ call[p].pc = "idle"
    /\ mode = "sequential" => \A q \in Procs : call[q].pc = "idle"
    /\ \E w \in WhichResults :
       \E env \in IF IsSome(w) THEN ShellEnvs ELSE {<<>>} :
          LET c == [IdleCall EXCEPT !.which = w, !.shell_env = env,
                        !.cache0 = binary_cache[p], !.fs0 = fs]
              got == get_binary(w, env, binary_cache[p], fs, platform)
          IN  call' = [call EXCEPT ![p] =
                IF got.kind = "install"
                THEN [Logged(c, got.log) EXCEPT !.pc = "install"]
                ELSE ReturnOk(Logged(c, got.log), got.kind, got.path,
                              got.env)]
    /\ UNCHANGED <<platform, arch, mode, fs, binary_cache, last_failed>>

\* ------------------------------------------------------------------------
\* install_binary (lib.rs:222-268) and the helpers that touch the host
\* ------------------------------------------------------------------------

\* The text of an error a host call reports.
HostError == <<"host error">>

\* The cache cleared when install_binary returns Err.
CacheAfterInstall_ClearOnError(kind, cache, binary_path) ==
    IF kind \in {"AlreadyInstalled", "Installed"} THEN Some(binary_path)
    ELSE None

\* The cache assigned as soon as the binary path is known, whatever the
\* outcome.
CacheAfterInstall_Eager(kind, cache, binary_path) ==
    IF binary_path /= <<>> THEN Some(binary_path) ELSE cache

\* self.binary_cache when install_binary returns (lib.rs:246-248, 263): set
\* to the binary path on the two Ok returns, left alone on every Err.
CacheAfterInstall(kind, cache, binary_path) ==
    IF kind \in {"AlreadyInstalled", "Installed"} THEN Some(binary_path)
    ELSE cache

\* install_binary without the check of lib.rs:246.
AlreadyInstalled_Unchecked(dir, binary_path, os) == FALSE

\* lib.rs:246: binary_path.exists()
AlreadyInstalled(dir, binary_path, os) == Exists(dir, binary_path, os)

\* The removal's own failure propagated (remove_dir_all(..)? for .ok()).
CleanupResult_Propagated(download_err, removed) ==
    IF removed THEN download_err
    ELSE <<"Failed to remove directory: ", "host error">>

\* download_binary_or_cleanup, lib.rs:172-173: the result after the removal
\* of version_dir, whose own outcome is dropped by .ok().
CleanupResult(download_err, removed) == download_err

\* lib.rs:226-244: report CheckingForUpdate, query the latest release, then
\* (no host call in between) map the architecture, select the asset and
\* build the versioned path.
InstallQueryOf(p, releases) ==
    /\ call[p].pc = "install"
    /\ LET c == Logged(call[p],
                  <<Ev("status", <<"CheckingForUpdate">>, <<>>, TRUE)>>)
           query(ok) == Ev("latest_github_release", RUMDL_GITHUB_REPO, <<>>, ok)
       IN  \/ /\ call' = [call EXCEPT ![p] =
                    ReturnErr(Logged(c, <<query(FALSE)>>),
                        <<"Failed to fetch latest release: ">> \o HostError)]
              /\ binary_cache' = [binary_cache EXCEPT ![p] =
                    CacheAfterInstall("Failed", @, <<>>)]
           \/ \E r \in releases :
                LET res == ResolveRelease(r, platform, arch)
                IN  /\ call' = [call EXCEPT ![p] =
                          [Logged(c, <<query(TRUE)>> \o res.log) EXCEPT
                              !.pc = "resolved", !.release = r,
                              !.resolved = res.ok, !.err = res.err,
                              !.asset = res.asset,
                              !.version_dir = res.version_dir,
                              !.binary_path = res.binary_path]]
                    /\ UNCHANGED binary_cache
    /\ UNCHANGED <<platform, arch, mode, fs, last_failed>>

InstallQuery(p) == InstallQueryOf(p, Releases)

\* The same step, drawing the release from the asset lists of up to
\* MaxAssets assets.
SelectQuery(p) == InstallQueryOf(p, SelectReleases)

\* The same step while concurrent calls are explored: one release.
ConcurrentQuery(p) == InstallQueryOf(p, ConcurrentReleases)

\* install_binary running cleanup_other_versions on the fast path of
\* lib.rs:246-252 too.
InstallExisting_Prunes(p) ==
    /\ call[p].pc = "resolved"
    /\ LET c == call[p]
           found == AlreadyInstalled(fs, c.binary_path, platform)
           probed == Logged(c, <<Ev("exists", c.binary_path, <<>>, found)>>)
       IN  IF ~c.resolved
           THEN /\ call' = [call EXCEPT ![p] = ReturnErr(c, c.err)]
                /\ binary_cache' = [binary_cache EXCEPT ![p] =
                      CacheAfterInstall("Failed", @, c.binary_path)]
           ELSE IF found
           THEN /\ call' = [call EXCEPT ![p] =
                      [probed EXCEPT !.pc = "read_dir",
                                     !.release = NoRelease]]
                /\ UNCHANGED binary_cache
           ELSE /\ call' = [call EXCEPT ![p] =
                      [probed EXCEPT !.pc = "download",
                                     !.release = NoRelease]]
                /\ UNCHANGED binary_cache
    /\ UNCHANGED <<platform, arch, mode, fs, last_failed>>

\* lib.rs:241-252: the ? of the three fallible steps, then the check whether
\* the versioned binary is already installed.
InstallExisting(p) ==
    /\ call[p].pc = "resolved"
    /\ LET c == call[p]
           found == AlreadyInstalled(fs, c.binary_path, platform)
           probed == Logged(c, <<Ev("exists", c.binary_path, <<>>, found)>>)
       IN  IF ~c.resolved
           THEN /\ call' = [call EXCEPT ![p] = ReturnErr(c, c.err)]
                /\ binary_cache' = [binary_cache EXCEPT ![p] =
                      CacheAfterInstall("Failed", @, c.binary_path)]
           ELSE IF found
           THEN /\ binary_cache' = [binary_cache EXCEPT ![p] =
                      CacheAfterInstall("AlreadyInstalled", @, c.binary_path)]
                /\ call' = [call EXCEPT ![p] =
                      ReturnOk(probed, "AlreadyInstalled", c.binary_path, <<>>)]
           ELSE /\ call' = [call EXCEPT ![p] =
                      [probed EXCEPT !.pc = "download",
                                     !.release = NoRelease]]
                /\ UNCHANGED binary_cache
    /\ UNCHANGED <<platform, arch, mode, fs, last_failed>>

\* download_binary reporting Downloading only after download_file returned.
DownloadFile_ReportAfter(p) ==
    /\ call[p].pc = "download"
    /\ LET c == call[p]
           file_type == IF platform = "Windows" THEN <<"Zip">>
                        ELSE <<"GzipTar">>
           status == Ev("status", <<"Downloading">>, <<>>, TRUE)
           download(ok) == Ev("download_file", c.version_dir,
                              c.asset.download_url \o <<" ">> \o file_type, ok)
       IN  \/ /\ fs' = [fs EXCEPT ![c.version_dir] = "full"]
              /\ call' = [call EXCEPT ![p] =
                    [Logged(c, <<download(TRUE), status>>) EXCEPT
                        !.pc = "make_executable"]]
           \/ /\ \E left \in {fs[c.version_dir], "partial", "full"} :
                    /\ fs[c.version_dir] = "full" => left = "full"
                    /\ fs' = [fs EXCEPT ![c.version_dir] = left]
              /\ call' = [call EXCEPT ![p] =
                    [Logged(c, <<download(FALSE), status>>) EXCEPT
                        !.pc = "remove_partial",
                        !.err = <<"Failed to download Rumdl binary: ">>
                                \o HostError]]
    /\ UNCHANGED <<platform, arch, mode, binary_cache, last_failed>>

\* download_binary, lib.rs:133-144: report Downloading, then download and
\* unpack the archive into version_dir.  A failed download may leave any
\* part of the archive behind.
DownloadFile(p) ==
    /\ call[p].pc = "download"
    /\ LET c == call[p]
           file_type == IF platform = "Windows" THEN <<"Zip">>
                        ELSE <<"GzipTar">>
           status == Ev("status", <<"Downloading">>, <<>>, TRUE)
           download(ok) == Ev("download_file", c.version_dir,
                              c.asset.download_url \o <<" ">> \o file_type, ok)
       IN  \/ /\ fs' = [fs EXCEPT ![c.version_dir] = "full"]
              /\ call' = [call EXCEPT ![p] =
                    [Logged(c, <<status, download(TRUE)>>) EXCEPT
                        !.pc = "make_executable"]]
           \/ /\ \E left \in {fs[c.version_dir], "partial", "full"} :
                    /\ fs[c.version_dir] = "full" => left = "full"
                    /\ fs' = [fs EXCEPT ![c.version_dir] = left]
              /\ call' = [call EXCEPT ![p] =
                    [Logged(c, <<status, download(FALSE)>>) EXCEPT
                        !.pc = "remove_partial",
                        !.err = <<"Failed to download Rumdl binary: ">>
                                \o HostError]]
    /\ UNCHANGED <<platform, arch, mode, binary_cache, last_failed>>

\* download_binary, lib.rs:146-150: the path is text (it was built from
\* strings), so to_str succeeds; then mark the binary executable.
MakeExecutable(p) ==
    /\ call[p].pc = "make_executable"
    /\ LET c == call[p]
           chmod(ok) == Ev("make_file_executable", c.binary_path, <<>>, ok)
       IN  \/ call' = [call EXCEPT ![p] =
                [Logged(c, <<chmod(TRUE)>>) EXCEPT !.pc = "read_dir"]]
           \/ call' = [call EXCEPT ![p] =
                [Logged(c, <<chmod(FALSE)>>) EXCEPT
                    !.pc = "remove_partial",
                    !.err = <<"Failed to make binary executable: ">>
                            \o HostError]]
    /\ UNCHANGED <<platform, arch, mode, fs, binary_cache, last_failed>>

\* What fs::remove_dir_all can leave of an entry: nothing (Ok), or, on Err,
\* the entry as it was or with part of its content gone.
RemoveOutcomes(state) ==
    IF state = "absent" THEN {"absent"} ELSE {"absent", "partial", state}

\* download_binary_or_cleanup, lib.rs:167-173: the download failed; remove
\* version_dir, ignore the outcome, return the download's error.
RemovePartial(p) ==
    /\ call[p].pc = "remove_partial"
    /\ LET c == call[p]
       IN  \E left \in RemoveOutcomes(fs[c.version_dir]) :
             /\ fs' = [fs EXCEPT ![c.version_dir] = left]
             /\ LET removed == left = "absent" /\ fs[c.version_dir] /= "absent"
                IN  call' = [call EXCEPT ![p] =
                      ReturnErr(Logged(c, <<Ev("remove_dir_all", c.version_dir,
                                               <<>>, removed)>>),
                                CleanupResult(c.err, removed))]
             /\ binary_cache' = [binary_cache EXCEPT ![p] =
                   CacheAfterInstall("Failed", @, c.binary_path)]
    /\ UNCHANGED <<platform, arch, mode, last_failed>>

\* cleanup_other_versions, lib.rs:177-179: list the working directory; on
\* Err return at once.
ReadDir(p) ==
    /\ call[p].pc = "read_dir"
    /\ LET c == call[p]
           listing(ok) == Ev("read_dir", <<".">>, <<>>, ok)
       IN  \/ call' = [call EXCEPT ![p] =
                [Logged(c, <<listing(FALSE)>>) EXCEPT
                    !.pc = "cleanup", !.todo = {}]]
           \/ call' = [call EXCEPT ![p] =
                [Logged(c, <<listing(TRUE)>>) EXCEPT
                    !.pc = "cleanup",
                    !.todo = {e \in Entries : fs[e] /= "absent"}]]
    /\ UNCHANGED <<platform, arch, mode, fs, binary_cache, last_failed>>

\* The loop testing the prefix "rumdl" in place of NAME_PREFIX at lib.rs:190.
IsStaleVersion_NamePrefix(name, current_version_dir) ==
    /\ name /= current_version_dir
    /\ StartsWith(name, NAME)

\* The loop without the name == current_version_dir test of lib.rs:186.
IsStaleVersion_NoSkip(name, current_version_dir) ==
    StartsWith(name, NAME_PREFIX)

\* cleanup_other_versions, lib.rs:186-192: the entries the loop removes.
IsStaleVersion(name, current_version_dir) ==
    /\ name /= current_version_dir
    /\ StartsWith(name, NAME_PREFIX)

\* The loop trying an entry again until its removal succeeds.
CleanupEntry_Retry(p) ==
    /\ call[p].pc = "cleanup"
    /\ LET c == call[p]
       IN  \E name \in c.todo :
             IF IsStaleVersion(name, c.version_dir)
             THEN \E left \in RemoveOutcomes(fs[name]) :
                    /\ fs' = [fs EXCEPT ![name] = left]
                    /\ call' = [call EXCEPT ![p] =
                         [Logged(c, <<Ev("remove_dir_all", name, <<>>,
                                left = "absent" /\ fs[name] /= "absent")>>)
                            EXCEPT !.todo = IF left = "absent"
                                            THEN @ \ {name} ELSE @]]
             ELSE /\ call' = [call EXCEPT ![p].todo = @ \ {name}]
                  /\ UNCHANGED fs
    /\ UNCHANGED <<platform, arch, mode, binary_cache, last_failed>>

\* cleanup_other_versions, lib.rs:181-195: one round of the loop, on the
\* entry read_dir yields next (in any order).
CleanupEntry(p) ==
    /\ call[p].pc = "cleanup"
    /\ LET c == call[p]
       IN  \E name \in c.todo :
             IF IsStaleVersion(name, c.version_dir)
             THEN \E left \in RemoveOutcomes(fs[name]) :
                    /\ fs' = [fs EXCEPT ![name] = left]
                    /\ call' = [call EXCEPT ![p] =
                         [Logged(c, <<Ev("remove_dir_all", name, <<>>,
                                left = "absent" /\ fs[name] /= "absent")>>)
                            EXCEPT !.todo = @ \ {name}]]
             ELSE /\ call' = [call EXCEPT ![p].todo = @ \ {name}]
                  /\ UNCHANGED fs
    /\ UNCHANGED <<platform, arch, mode, binary_cache, last_failed>>

\* install_binary, lib.rs:263-267: the cleanup is over; cache and return.
InstallFinish(p) ==
    /\ call[p].pc = "cleanup"
    /\ call[p].todo = {}
    /\ binary_cache' = [binary_cache EXCEPT ![p] =
          CacheAfterInstall("Installed", @, call[p].binary_path)]
    /\ call' = [call EXCEPT ![p] =
          ReturnOk(call[p], "Installed", call[p].binary_path, <<>>)]
    /\ UNCHANGED <<platform, arch, mode, fs, last_failed>>

\* The host takes the result of language_server_command.
Return(p) ==
    /\ call[p].pc = "done"
    /\ last_failed' = [last_failed EXCEPT ![p] = (call[p].kind = "Failed")]
    /\ call' = [call EXCEPT ![p] = IdleCall]
    /\ UNCHANGED <<platform, arch, mode, fs, binary_cache>>

Next ==
    \E p \in Procs :
        \/ GetBinary(p)
        \/ InstallQuery(p)
        \/ InstallExisting(p)
        \/ DownloadFile(p)
        \/ MakeExecutable(p)
        \/ RemovePartial(p)
        \/ ReadDir(p)
        \/ CleanupEntry(p)
        \/ InstallFinish(p)
        \/ Return(p)

Spec == Init /\ [][Next]_vars

\* One step of install_binary in a call that has begun: each is code that
\* runs to its next host call, which returns.
Step(p) ==
    \/ InstallQuery(p)
    \/ InstallExisting(p)
    \/ DownloadFile(p)
    \/ MakeExecutable(p)
    \/ RemovePartial(p)
    \/ ReadDir(p)
    \/ CleanupEntry(p)
    \/ InstallFinish(p)

\* The calls of one extension instance, one after the other.
NextFair == GetBinary(1) \/ Step(1) \/ Return(1)

\* language_server_command is synchronous: a call that has begun keeps
\* running until it returns.
Fairness == WF_vars(Step(1))

SpecFair == Init /\ [][NextFair]_vars /\ Fairness

\* Asset selection over every asset list of up to MaxAssets assets: calls
\* of a freshly installed extension (empty working directory), followed up
\* to the existence check.
InitSelect == Init /\ fs = [e \in Entries |-> "absent"]

NextSelect ==
    \E p \in Procs :
        \/ GetBinary(p)
        \/ SelectQuery(p)
        \/ InstallExisting(p)
        \/ Return(p)

SpecSelect == InitSelect /\ [][NextSelect]_vars

\* Two instances resolving at the same time on one working directory, the
\* latest release being the same for both.
NextConcurrent ==
    \E p \in Procs :
        \/ GetBinary(p)
        \/ ConcurrentQuery(p)
        \/ InstallExisting(p)
        \/ DownloadFile(p)
        \/ MakeExecutable(p)
        \/ RemovePartial(p)
        \/ ReadDir(p)
        \/ CleanupEntry(p)
        \/ InstallFinish(p)
        \/ Return(p)

SpecConcurrent == InitConcurrent /\ [][NextConcurrent]_vars

\* ------------------------------------------------------------------------
\* Properties
\* ------------------------------------------------------------------------

Ops(log) == {log[i].op : i \in 1..Len(log)}
Events(log) == {log[i] : i \in 1..Len(log)}

\* The operations of install_binary and its helpers.
InstallOps ==
    {"status", "latest_github_release", "find_release_asset",
     "download_file", "make_file_executable", "remove_dir_all", "read_dir"}

\* The call has gone on from get_binary to install_binary.
EnteredInstall(c) ==
    \/ c.pc = "install"
    \/ Ev("status", <<"CheckingForUpdate">>, <<>>, TRUE) \in Events(c.log)

\* The entries of the working directory other than dir that
\* cleanup_other_versions is to prune.
OtherVersions(dir) ==
    {e \in Entries : e /= dir /\ StartsWith(e, <<"rumdl", "-">>)}

\* C1: a get_binary call whose command-path lookup (worktree.which) returns
\* a path returns that path with the worktree's shell environment and never
\* enters installation: no status report, release query, download or
\* removal, the working directory and binary_cache stay as they were; also
\* when the cache holds a path that exists.
C1_LocalLookupSkipsInstall ==
    \A p \in Procs :
        LET c == call[p]
        IN  (c.pc /= "idle" /\ IsSome(c.which)) =>
                /\ c.pc = "done"
                /\ c.kind = "LocalFound"
                /\ c.path = Unwrap(c.which)
                /\ c.env = c.shell_env
                /\ Ops(c.log) \cap (InstallOps \cup {"exists"}) = {}
                /\ binary_cache[p] = c.cache0
                /\ fs = c.fs0

\* C1 witness: local lookup succeeds while the cache holds a path that
\* exists, and the shell environment is not empty.
C1_Witness ==
    \E p \in Procs :
        /\ call[p].kind = "LocalFound"
        /\ call[p].env /= <<>>
        /\ IsSome(binary_cache[p])
        /\ Exists(fs, Unwrap(binary_cache[p]), platform)

\* C2 as stated: after a download-install of version V, rumdl-V is present
\* and every other entry whose name starts with "rumdl-" is gone, so at most
\* one version directory remains.
C2_AllOtherVersionsRemoved ==
    \A p \in Procs :
        LET c == call[p]
        IN  c.kind = "Installed" =>
                /\ fs[c.version_dir] /= "absent"
                /\ \A e \in OtherVersions(c.version_dir) : fs[e] = "absent"

\* C2 amended: after a download-install of version V, rumdl-V is present
\* with its binary, and every other entry whose name starts with "rumdl-" is
\* gone unless listing the working directory failed or the removal of that
\* entry failed; with neither failure, rumdl-V is the only such entry left.
\* Every such entry the listing showed had its removal attempted.
C2_OtherVersionsRemovedUnlessFailed ==
    \A p \in Procs :
        LET c == call[p]
            listed == Ev("read_dir", <<".">>, <<>>, TRUE) \in Events(c.log)
        IN  c.kind = "Installed" =>
                /\ fs[c.version_dir] = "full"
                /\ \A e \in OtherVersions(c.version_dir) :
                      \/ fs[e] = "absent"
                      \/ ~listed
                      \/ Ev("remove_dir_all", e, <<>>, FALSE) \in Events(c.log)
                /\ listed =>
                      \A e \in OtherVersions(c.version_dir) :
                          c.fs0[e] /= "absent" =>
                              \E ok \in BOOLEAN :
                                  Ev("remove_dir_all", e, <<>>, ok)
                                      \in Events(c.log)

\* C2 witness: an install that found two other "rumdl-" entries and left
\* only its own version directory.
C2_Witness ==
    \E p \in Procs :
        LET c == call[p]
        IN  /\ c.kind = "Installed"
            /\ Cardinality({e \in OtherVersions(c.version_dir) :
                               c.fs0[e] /= "absent"}) = 2
            /\ \A e \in OtherVersions(c.version_dir) : fs[e] = "absent"
            /\ fs[c.version_dir] = "full"

\* C3: get_binary returns the cached path only after finding it on disk in
\* the same call; with the cache set, the path gone and no local binary, the
\* call goes on to install_binary.
C3_CacheCheckedOnDisk ==
    \A p \in Procs :
        LET c == call[p]
        IN  /\ c.kind = "CacheHit" =>
                /\ IsSome(c.cache0)
                /\ c.path = Unwrap(c.cache0)
                /\ c.env = <<>>
                /\ Exists(c.fs0, c.path, platform)
                /\ Ev("exists", c.path, <<>>, TRUE) \in Events(c.log)
            /\ ( /\ c.pc /= "idle"
                 /\ c.which = None
                 /\ IsSome(c.cache0)
                 /\ ~Exists(c.fs0, Unwrap(c.cache0), platform) ) =>
                    /\ c.kind /= "CacheHit"
                    /\ EnteredInstall(c)

\* C3 witness: the cache is set, its path is gone, and the call is about to
\* install.
C3_Witness ==
    \E p \in Procs :
        /\ call[p].pc = "install"
        /\ IsSome(call[p].cache0)
        /\ ~Exists(fs, Unwrap(call[p].cache0), platform)

\* C4: when the versioned binary path exists on disk once the asset and the
\* path are resolved, install_binary returns that path without download,
\* make-executable or Downloading status; a download is only ever started
\* for a binary that is not on disk, so resolving an installed version again
\* downloads nothing.
C4_InstalledVersionNotDownloaded ==
    \A p \in Procs :
        LET c == call[p]
        IN  /\ c.pc = "download" => ~Exists(fs, c.binary_path, platform)
            /\ ( /\ c.pc \notin {"idle", "install", "resolved"}
                 /\ c.resolved
                 /\ Exists(c.fs0, c.binary_path, platform) ) =>
                    c.kind = "AlreadyInstalled"
            /\ c.kind = "AlreadyInstalled" =>
                /\ c.path = c.binary_path
                /\ Exists(fs, c.path, platform)
                /\ Ops(c.log) \cap {"download_file", "make_file_executable"}
                       = {}
                /\ Ev("status", <<"Downloading">>, <<>>, TRUE)
                       \notin Events(c.log)
                /\ fs = c.fs0

\* C4 witness: an instance finds on disk the version the other instance
\* holds in its cache.
C4_Witness ==
    \E p \in Procs :
        /\ call[p].kind = "AlreadyInstalled"
        /\ call[p].cache0 = None
        /\ \E q \in Procs \ {p} : binary_cache[q] = Some(call[p].path)

\* The texts of the errors, as the source writes them.
SlashError == <<"Invalid release version: contains '/'">>
BackslashError == <<"Invalid release version: contains '\\\\'">>
FetchError == <<"Failed to fetch latest release: ", "host error">>
DownloadError == <<"Failed to download Rumdl binary: ", "host error">>
ExecutableError == <<"Failed to make binary executable: ", "host error">>
NoBinaryFor(arch_str, triple) ==
    <<"No compatible Rumdl binary found for ">> \o arch_str \o <<"-">> \o triple

\* The host's architecture as asset names spell it.
HostArch == IF arch = "X8664" THEN <<"x86_64">> ELSE <<"aarch64">>
SupportedArch == arch \in {"X8664", "Aarch64"}

FailedOp(log, op) == \E i \in 1..Len(log) : log[i].op = op /\ ~log[i].ok

\* The call has returned from install_binary.
InstallReturned(c) ==
    c.pc = "done" /\ c.kind \notin {"LocalFound", "CacheHit"}

\* C5 as stated: when the release version contains '/' or '\', the call
\* fails with the invalid-version error before any filesystem or network
\* operation of that call (no existence check, no release query, no
\* download, no removal).
C5_InvalidVersionBeforeAnyOperation ==
    \A p \in Procs :
        LET c == call[p]
        IN  (c.kind = "Failed" /\ c.err \in {SlashError, BackslashError}) =>
                Ops(c.log) \cap {"exists", "latest_github_release",
                                 "download_file", "make_file_executable",
                                 "remove_dir_all", "read_dir"} = {}

\* C5 amended: when the release version contains '/' or '\' (and the
\* architecture is supported and an asset was selected), the call fails
\* with the invalid-version error after the release query (and the cache's
\* existence check, when the cache is set) but before any existence check
\* of the versioned path, download, directory creation or removal; the
\* working directory and binary_cache are unchanged.
C5_InvalidVersionFailsEarly ==
    \A p \in Procs :
        LET c == call[p]
            v == c.release.version
        IN  /\ ( /\ c.pc = "resolved"
                 /\ ContainsChar(v, "/") \/ ContainsChar(v, "\\") ) =>
                    /\ ~c.resolved
                    /\ c.asset /= NoAsset =>
                          c.err = IF ContainsChar(v, "/") THEN SlashError
                                  ELSE BackslashError
            /\ (c.kind = "Failed" /\ c.err \in {SlashError, BackslashError}) =>
                    /\ Ops(c.log) \subseteq
                          {"which", "exists", "status",
                           "latest_github_release", "find_release_asset"}
                    /\ \A e \in Events(c.log) :
                          e.op = "exists" => c.cache0 = Some(e.arg)
                    /\ fs = c.fs0
                    /\ binary_cache[p] = c.cache0

\* C5 witness: a call with a stale cache failed on a version holding '\'.
C5_Witness ==
    \E p \in Procs :
        /\ call[p].kind = "Failed"
        /\ call[p].err = BackslashError
        /\ IsSome(call[p].cache0)

\* C6: when the download or the make-executable step fails, the call
\* attempts to remove version_dir (whatever the outcome of the removal),
\* returns the download or permission error, does not run the stale-version
\* cleanup and leaves binary_cache alone.
C6_FailedDownloadCleansUp ==
    \A p \in Procs :
        LET c == call[p]
            failed == \/ FailedOp(c.log, "download_file")
                      \/ FailedOp(c.log, "make_file_executable")
        IN  /\ c.pc \in {"read_dir", "cleanup"} => ~failed
            /\ (c.pc = "done" /\ failed) =>
                    /\ c.kind = "Failed"
                    /\ c.err = IF FailedOp(c.log, "download_file")
                               THEN DownloadError ELSE ExecutableError
                    /\ c.log[Len(c.log)].op = "remove_dir_all"
                    /\ c.log[Len(c.log)].arg = c.version_dir
                    /\ Cardinality({i \in 1..Len(c.log) :
                           c.log[i].op = "remove_dir_all"}) = 1
                    /\ "read_dir" \notin Ops(c.log)
                    /\ binary_cache[p] = c.cache0
                    /\ \A e \in Entries \ {c.version_dir} : fs[e] = c.fs0[e]

\* C6 witness: make-executable failed, the removal of the version directory
\* failed too, and the call returned the permission error.
C6_Witness ==
    \E p \in Procs :
        LET c == call[p]
        IN  /\ c.pc = "done"
            /\ c.err = ExecutableError
            /\ Ev("remove_dir_all", c.version_dir, <<>>, FALSE)
                   \in Events(c.log)
            /\ fs[c.version_dir] = "full"

\* The assets of a release whose name ends with the host's architecture,
\* the given target triple and ".tar.gz", by position.
LinuxHits(release, triple) ==
    {i \in 1..Len(release.assets) :
        EndsWith(release.assets[i].name,
                 HostArch \o <<"-">> \o triple \o <<".", "tar", ".", "gz">>)}

GnuTriple == <<"unknown", "-", "linux", "-", "gnu">>
MuslTriple == <<"unknown", "-", "linux", "-", "musl">>

\* C7: on Linux, for every asset list: the first asset ending with
\* "{arch}-unknown-linux-gnu.tar.gz" is selected if there is one, also when
\* a musl asset is present; otherwise the first asset ending with
\* "{arch}-unknown-linux-musl.tar.gz" if there is one; otherwise selection
\* fails.
C7_LinuxGnuThenMusl ==
    \A p \in Procs :
        LET c == call[p]
            gnu == LinuxHits(c.release, GnuTriple)
            musl == LinuxHits(c.release, MuslTriple)
        IN  (c.pc = "resolved" /\ platform = "Linux" /\ SupportedArch) =>
                IF gnu /= {}
                THEN c.asset = c.release.assets[SetMin(gnu)]
                ELSE IF musl /= {}
                THEN c.asset = c.release.assets[SetMin(musl)]
                ELSE c.asset = NoAsset /\ ~c.resolved

\* C7 witness: the release lists a musl asset before a gnu asset and the gnu
\* asset is selected.
C7_Witness ==
    \E p \in Procs :
        LET c == call[p]
        IN  /\ c.pc = "resolved"
            /\ platform = "Linux"
            /\ Len(c.release.assets) = 2
            /\ LinuxHits(c.release, MuslTriple) = {1}
            /\ LinuxHits(c.release, GnuTriple) = {2}
            /\ c.asset = c.release.assets[2]

\* C8: on Linux, when neither a gnu nor a musl asset matches, the error
\* holds the musl failure reason and the gnu failure reason, and the call
\* fails without download or change of the working directory.
C8_LinuxErrorNamesBothAttempts ==
    \A p \in Procs :
        LET c == call[p]
            both == /\ ContainsStr(c.err, NoBinaryFor(HostArch, MuslTriple))
                    /\ ContainsStr(c.err, NoBinaryFor(HostArch, GnuTriple))
        IN  /\ ( /\ c.pc = "resolved" /\ platform = "Linux" /\ SupportedArch
                 /\ LinuxHits(c.release, GnuTriple) = {}
                 /\ LinuxHits(c.release, MuslTriple) = {} ) =>
                    ~c.resolved /\ both
            /\ ( /\ c.pc = "done" /\ platform = "Linux"
                 /\ Ev("find_release_asset",
                       HostArch \o <<"-">> \o MuslTriple
                           \o <<".", "tar", ".", "gz">>, <<>>, FALSE)
                        \in Events(c.log) ) =>
                    /\ c.kind = "Failed"
                    /\ both
                    /\ Ops(c.log) \cap {"download_file", "make_file_executable",
                                        "remove_dir_all", "read_dir"} = {}
                    /\ fs = c.fs0
                    /\ binary_cache[p] = c.cache0

\* C8 witness: a Linux call failed with the combined error.
C8_Witness ==
    \E p \in Procs :
        /\ call[p].kind = "Failed"
        /\ platform = "Linux"
        /\ call[p].err = NoBinaryFor(<<"x86_64">>, MuslTriple)
                            \o <<"; gnu attempt failed: ">>
                            \o NoBinaryFor(<<"x86_64">>, GnuTriple)

\* No asset lookup, no download, no change of working directory or cache.
NothingAttempted(p) ==
    /\ Ops(call[p].log) \cap {"find_release_asset", "download_file",
                              "make_file_executable", "remove_dir_all",
                              "read_dir"} = {}
    /\ fs = call[p].fs0
    /\ binary_cache[p] = call[p].cache0

\* C9 as stated: for an architecture other than x86-64 and aarch64, every
\* call that goes on to installation fails with the unsupported-architecture
\* error, with no asset lookup, download or removal and the cache unchanged.
C9_UnsupportedArchAlwaysReported ==
    \A p \in Procs :
        (~SupportedArch /\ InstallReturned(call[p])) =>
            /\ call[p].kind = "Failed"
            /\ call[p].err = <<"Unsupported architecture: ", arch>>
            /\ NothingAttempted(p)

\* C9 amended: for an architecture other than x86-64 and aarch64, every
\* call that goes on to installation fails: with the unsupported-
\* architecture error naming the architecture when the release query
\* succeeded, with the release query's error when it failed; either way no
\* asset lookup, download or removal happens and the cache is unchanged.
C9_UnsupportedArchAfterQuery ==
    \A p \in Procs :
        LET c == call[p]
        IN  /\ (~SupportedArch /\ c.pc = "resolved") => ~c.resolved
            /\ (~SupportedArch /\ InstallReturned(c)) =>
                    /\ c.kind = "Failed"
                    /\ c.err = IF FailedOp(c.log, "latest_github_release")
                               THEN FetchError
                               ELSE <<"Unsupported architecture: ", arch>>
                    /\ NothingAttempted(p)

\* C9 witness: on X86 a call failed with the error naming X86.
C9_Witness ==
    \E p \in Procs :
        /\ arch = "X86"
        /\ call[p].kind = "Failed"
        /\ call[p].err = <<"Unsupported architecture: ", "X86">>

\* C10: a failing call, whatever failed, leaves binary_cache as it was, and
\* records nothing else: the next call that finds neither a local binary
\* nor a usable cache queries the release again and can succeed.
C10_NoErrorCached ==
    \A p \in Procs :
        LET c == call[p]
        IN  /\ c.kind = "Failed" =>
                /\ binary_cache[p] = c.cache0
                /\ c.err \in {FetchError, SlashError, BackslashError,
                              DownloadError, ExecutableError}
                     \/ c.err = <<"Unsupported architecture: ", arch>>
                     \/ ContainsStr(c.err,
                            <<"No compatible Rumdl binary found for ">>)
            /\ (last_failed[p] /\ InstallReturned(c)) =>
                    "latest_github_release" \in Ops(c.log)
            /\ (last_failed[p] /\ c.pc /= "idle" /\ c.which = None
                  /\ ~(IsSome(c.cache0)
                       /\ Exists(c.fs0, Unwrap(c.cache0), platform))) =>
                    EnteredInstall(c)

\* C10 witness: the call after a failed one installs the binary.
C10_Witness ==
    \E p \in Procs :
        /\ last_failed[p]
        /\ call[p].kind = "Installed"
        /\ call[p].cache0 = None

\* C11: every successful language_server_command returns a command whose
\* arguments are the single "server" and whose executable is the resolved
\* binary path; its environment is the worktree's shell environment when
\* the binary was found by local lookup, and empty when it came from the
\* cache, the already-installed check or a download.
C11_CommandOfResolvedBinary ==
    \A p \in Procs :
        LET c == call[p]
        IN  /\ (c.pc = "done" /\ c.kind /= "Failed") =>
                /\ c.command.args = <<"server">>
                /\ c.command.command =
                      IF c.kind = "LocalFound" THEN Unwrap(c.which)
                      ELSE IF c.kind = "CacheHit" THEN Unwrap(c.cache0)
                      ELSE c.binary_path
                /\ c.command.env =
                      IF c.kind = "LocalFound" THEN c.shell_env ELSE <<>>
            /\ (c.pc /= "done" \/ c.kind = "Failed") => c.command = NoCommand

\* C11 witness: a command for the local binary carrying a shell environment
\* that is not empty.
C11_Witness ==
    \E p \in Procs :
        /\ call[p].kind = "LocalFound"
        /\ call[p].command.command = LocalPath
        /\ call[p].command.args = <<"server">>
        /\ call[p].command.env = << <<"PATH", "/usr/local/bin">> >>

\* C12: for a version without '/' and '\', the install directory is
\* "rumdl-{version}" on every platform and the binary path is that
\* directory joined with "rumdl" on macOS and Linux and with "rumdl.exe" on
\* Windows.
C12_VersionedPath ==
    \A p \in Procs :
        LET c == call[p]
            v == c.release.version
            valid == ~ContainsChar(v, "/") /\ ~ContainsChar(v, "\\")
        IN  c.pc = "resolved" =>
                /\ (valid /\ c.asset /= NoAsset) => c.resolved
                /\ c.resolved =>
                      /\ valid
                      /\ c.version_dir = <<"rumdl", "-">> \o v
                      /\ c.binary_path =
                            <<"rumdl", "-">> \o v \o <<"/">> \o
                            (IF platform = "Windows"
                             THEN <<"rumdl", ".", "exe">> ELSE <<"rumdl">>)

\* C12 witness: version 1.2.3 resolved on Windows to rumdl-1.2.3 and
\* rumdl-1.2.3/rumdl.exe.
C12_Witness ==
    \E p \in Procs :
        /\ call[p].pc = "resolved"
        /\ platform = "Windows"
        /\ call[p].release.version = <<"1", ".", "2", ".", "3">>
        /\ call[p].version_dir = <<"rumdl", "-", "1", ".", "2", ".", "3">>
        /\ call[p].binary_path =
              <<"rumdl", "-", "1", ".", "2", ".", "3", "/", "rumdl", ".", "exe">>

\* The call of p has returned Ok from install_binary.
InstallSucceeded(p) ==
    call[p].pc = "done" /\ call[p].kind \in {"AlreadyInstalled", "Installed"}

\* C13: with two calls resolving the same version at the same time, once
\* one install has completed with its binary on disk, no step of the other
\* call removes or invalidates that binary: every call that returned
\* success still has its binary on disk when the other call finishes.
C13_CompletedInstallStays ==
    [][\A p \in Procs :
          ( /\ InstallSucceeded(p)
            /\ Exists(fs, call[p].path, platform)
            /\ call'[p] = call[p] ) =>
                Exists(fs', call[p].path, platform)]_vars

\* The positions in a call's log of the events of one operation.
Idx(log, op) == {i \in 1..Len(log) : log[i].op = op}

\* The positions in a call's log of the reports of one installation status.
StatusIdx(log, status) ==
    {i \in Idx(log, "status") : log[i].arg = <<status>>}

\* The positions of install_binary's own existence check (lib.rs:246): the
\* exists events after the CheckingForUpdate report.
InstallExistsIdx(log) ==
    {i \in Idx(log, "exists") :
        \E j \in StatusIdx(log, "CheckingForUpdate") : j < i}

\* C14: in every install attempt CheckingForUpdate is reported exactly
\* once, before the release query; asset selection (with architecture
\* mapping and version validation) precedes the on-disk existence check,
\* which is made only when all three succeeded; Downloading is reported at
\* most once, only after the binary was found absent and directly before
\* the one download call; make-executable comes only after a successful
\* download; the listing and removal of stale directories come only after
\* both succeeded; and the attempt ends AlreadyInstalled, Installed or
\* Failed.
C14_InstallOrder ==
    \A p \in Procs :
        LET c == call[p]
            log == c.log
            chk == StatusIdx(log, "CheckingForUpdate")
            qry == Idx(log, "latest_github_release")
            srch == Idx(log, "find_release_asset")
            ex == InstallExistsIdx(log)
            dls == StatusIdx(log, "Downloading")
            dl == Idx(log, "download_file")
            chmod == Idx(log, "make_file_executable")
            stale == Idx(log, "read_dir") \cup
                     {i \in Idx(log, "remove_dir_all") :
                         log[i].arg /= c.version_dir}
        IN  /\ Cardinality(chk) <= 1
            /\ Cardinality(qry) <= 1
            /\ \A i \in qry : \E j \in chk : j < i
            /\ \A i \in srch : \E j \in qry : j < i /\ log[j].ok
            /\ Cardinality(ex) <= 1
            /\ ex /= {} => c.resolved /\ srch /= {}
            /\ \A i \in ex : \A j \in srch : j < i
            /\ Cardinality(dls) <= 1
            /\ Cardinality(dl) <= 1
            /\ \A i \in dls : \E j \in ex : j < i /\ ~log[j].ok
            /\ \A i \in dl : i - 1 \in dls
            /\ \A i \in chmod : \E j \in dl : j < i /\ log[j].ok
            /\ \A i \in stale :
                  \E j \in dl, k \in chmod :
                      j < k /\ k < i /\ log[j].ok /\ log[k].ok
            /\ InstallReturned(c) =>
                  /\ Cardinality(chk) = 1
                  /\ c.kind \in {"AlreadyInstalled", "Installed", "Failed"}
                  /\ c.kind = "AlreadyInstalled" => dls = {} /\ dl = {}
                  /\ c.kind = "Installed" => dl /= {} /\ chmod /= {}

\* An install that ran every step: cache probe, query, selection, absent
\* binary, download, make-executable, listing and a stale removal.
C14_Witness ==
    \E p \in Procs :
        LET c == call[p]
        IN  /\ c.pc = "done" /\ c.kind = "Installed"
            /\ IsSome(c.cache0)
            /\ \E i \in Idx(c.log, "remove_dir_all") :
                  c.log[i].arg /= c.version_dir

\* The call's download and make-executable steps both succeeded.
DownloadSucceeded(c) ==
    /\ \E i \in Idx(c.log, "download_file") : c.log[i].ok
    /\ \E i \in Idx(c.log, "make_file_executable") : c.log[i].ok

\* C15: the cleanup of stale directories never affects the caller's
\* result.  A call whose download and make-executable succeeded returns
\* Installed with the new versioned path and has cached that path, whether
\* the listing failed or any removal failed; when the listing succeeded,
\* every listed 'rumdl-' entry other than the current one got its removal
\* attempt although another removal failed; and no entry whose name does
\* not start with 'rumdl-' is removed or touched.
C15_CleanupNeverAffectsResult ==
    \A p \in Procs :
        LET c == call[p]
            log == c.log
            removals == {log[i].arg : i \in Idx(log, "remove_dir_all")}
            listed == \E i \in Idx(log, "read_dir") : log[i].ok
        IN  /\ \A e \in Entries :
                  ~StartsWith(e, <<"rumdl", "-">>) =>
                      e \notin removals /\ (c.pc /= "idle" => fs[e] = c.fs0[e])
            /\ (c.pc = "done" /\ DownloadSucceeded(c)) =>
                  /\ c.kind = "Installed"
                  /\ c.path = c.binary_path
                  /\ binary_cache[p] = Some(c.binary_path)
                  /\ listed =>
                        \A e \in OtherVersions(c.version_dir) :
                            c.fs0[e] /= "absent" => e \in removals

\* An install that returned Installed although a removal failed, with
\* another stale entry attempted after the failure and a present entry
\* without the prefix left alone.
C15_Witness ==
    /\ fs[LogFile] /= "absent"
    /\ \E p \in Procs :
          LET c == call[p]
          IN  /\ c.pc = "done" /\ c.kind = "Installed"
              /\ \E i, j \in Idx(c.log, "remove_dir_all") :
                    i < j /\ ~c.log[i].ok /\ c.log[i].arg /= c.log[j].arg

\* An install that returned Installed although the listing failed.
C15_WitnessListingFailed ==
    \E p \in Procs :
        /\ call[p].pc = "done" /\ call[p].kind = "Installed"
        /\ FailedOp(call[p].log, "read_dir")

\* The one asset-name suffix of the host's platform on macOS and Windows.
HostTriple ==
    IF platform = "Mac" THEN <<"apple", "-", "darwin">>
    ELSE <<"pc", "-", "windows", "-", "msvc">>

HostSuffix ==
    HostArch \o <<"-">> \o HostTriple \o
    (IF platform = "Mac" THEN <<".", "tar", ".", "gz">> ELSE <<".", "zip">>)

\* C16: on macOS and Windows asset selection is one attempt, for
\* "{arch}-apple-darwin.tar.gz" or "{arch}-pc-windows-msvc.zip".  When no
\* asset name ends with it, selection fails at once with the error naming
\* that architecture and OS: no musl or other search is made, although a
\* musl or other-platform asset is listed, and the error holds no second,
\* nested failure reason.  When one does, the first such asset is selected.
C16_SingleAttemptOffLinux ==
    \A p \in Procs :
        LET c == call[p]
            hits == {i \in 1..Len(c.release.assets) :
                        EndsWith(c.release.assets[i].name, HostSuffix)}
            searches == {c.log[i] : i \in Idx(c.log, "find_release_asset")}
        IN  (c.pc = "resolved" /\ platform \in {"Mac", "Windows"}
                /\ SupportedArch) =>
                /\ Cardinality(Idx(c.log, "find_release_asset")) = 1
                /\ \A e \in searches : e.arg = HostSuffix
                /\ hits = {} =>
                      /\ ~c.resolved
                      /\ c.asset = NoAsset
                      /\ c.err = NoBinaryFor(HostArch, HostTriple)
                      /\ ~ContainsStr(c.err, <<"; gnu attempt failed: ">>)
                /\ hits /= {} => c.asset = c.release.assets[SetMin(hits)]

\* macOS on x86-64, the release listing a Linux musl and a Windows asset
\* for x86-64 but none for apple-darwin: selection has failed.
C16_Witness ==
    \E p \in Procs :
        LET c == call[p]
        IN  /\ c.pc = "resolved" /\ platform = "Mac" /\ arch = "X8664"
            /\ Len(c.release.assets) = 2
            /\ EndsWith(c.release.assets[1].name,
                        <<"x86_64", "-">> \o MuslTriple
                            \o <<".", "tar", ".", "gz">>)
            /\ EndsWith(c.release.assets[2].name, <<".", "zip">>)
            /\ ~c.resolved
            /\ c.err = NoBinaryFor(<<"x86_64">>, <<"apple", "-", "darwin">>)

\* C17: a call that returns LocalFound or CacheHit changes neither
\* binary_cache nor the working directory and reports no installation
\* status.  While the cached path exists and local lookup fails, every
\* call returns the cached path without querying the release index: no
\* release, newer or not, is installed and no older directory is pruned.
C17_CacheHitFreezesVersion ==
    \A p \in Procs :
        LET c == call[p]
        IN  /\ c.kind \in {"LocalFound", "CacheHit"} =>
                /\ binary_cache[p] = c.cache0
                /\ fs = c.fs0
                /\ Ops(c.log) \cap InstallOps = {}
            /\ ( /\ c.pc /= "idle"
                 /\ c.which = None
                 /\ IsSome(c.cache0)
                 /\ Exists(c.fs0, Unwrap(c.cache0), platform) ) =>
                    /\ c.pc = "done"
                    /\ c.kind = "CacheHit"
                    /\ c.path = Unwrap(c.cache0)
                    /\ "latest_github_release" \notin Ops(c.log)
                    /\ \A e \in Entries : fs[e] = c.fs0[e]

\* A cache hit on version 1.0.0 while the directories of another version
\* and rumdl-old are still on disk.
C17_Witness ==
    \E p \in Procs :
        LET c == call[p]
        IN  /\ c.kind = "CacheHit"
            /\ c.path = <<"rumdl", "-">> \o V1 \o <<"/">> \o BinaryFile(platform)
            /\ fs[<<"rumdl", "-">> \o V2] /= "absent"
            /\ fs[OldDir] /= "absent"

\* The host calls a resolution call may make at most once, and the bound on
\* its asset searches.
BoundedWork(c) ==
    /\ \A op \in {"which", "latest_github_release", "download_file",
                  "make_file_executable", "read_dir"} :
          Cardinality(Idx(c.log, op)) <= 1
    /\ Cardinality(Idx(c.log, "find_release_asset")) <= 2
    /\ \A i, j \in Idx(c.log, "remove_dir_all") :
          c.log[i].arg = c.log[j].arg => i = j
    /\ \A i \in 1..Len(c.log) :
          (c.log[i].op \in InstallOps /\ ~c.log[i].ok) =>
              \A j \in (i + 1)..Len(c.log) :
                  ~(c.log[j].op = c.log[i].op /\ c.log[j].arg = c.log[i].arg)

\* C18: every resolution call terminates, each host call returning: it
\* makes at most one release query, at most two asset searches, at most
\* one download and one pass over the directory entries, repeats no failed
\* step, and returns LocalFound, CacheHit, AlreadyInstalled, Installed or
\* Failed.
C18_CallTerminates ==
    /\ [](\A p \in Procs :
            /\ BoundedWork(call[p])
            /\ call[p].pc = "done" =>
                  call[p].kind \in {"LocalFound", "CacheHit",
                                    "AlreadyInstalled", "Installed", "Failed"})
    /\ \A p \in Procs : (call[p].pc /= "idle") ~> (call[p].pc = "done")

\* A call that did all the work a call can do and returned: two asset
\* searches, a download, a listing and removals of two stale entries, one
\* of which failed.
C18_Witness ==
    \E p \in Procs :
        LET c == call[p]
        IN  /\ c.pc = "done" /\ c.kind = "Installed"
            /\ Cardinality(Idx(c.log, "find_release_asset")) = 2
            /\ Cardinality(Idx(c.log, "remove_dir_all")) = 2
            /\ FailedOp(c.log, "remove_dir_all")

\* The paths binary_cache may hold: "rumdl-{v}/rumdl" or
\* "rumdl-{v}/rumdl.exe" for a version v without '/' and '\'.
VersionedPaths ==
    { <<"rumdl", "-">> \o v \o <<"/">> \o file :
        v \in {w \in Versions : ~ContainsChar(w, "/") /\ ~ContainsChar(w, "\\")},
        file \in {<<"rumdl">>, <<"rumdl", ".", "exe">>} }

\* C19: binary_cache is empty or holds "rumdl-{v}/rumdl" or
\* "rumdl-{v}/rumdl.exe" with no '/' or '\' in v, never the path a local
\* lookup returned; it changes only in the step in which install_binary
\* returns AlreadyInstalled or Installed, and then to the path that call
\* returns; once set it is never empty again.
C19_CacheInvariant ==
    /\ [](\A p \in Procs :
            /\ binary_cache[p] = None \/ Unwrap(binary_cache[p]) \in VersionedPaths
            /\ binary_cache[p] \notin (WhichResults \ {None})
            /\ (call[p].kind \in {"AlreadyInstalled", "Installed"}
                  /\ mode = "sequential") =>
                    binary_cache[p] = Some(call[p].path))
    /\ [][\A p \in Procs :
            /\ binary_cache'[p] /= binary_cache[p] =>
                  /\ call[p].pc \in {"resolved", "cleanup"}
                  /\ call'[p].pc = "done"
                  /\ call'[p].kind \in {"AlreadyInstalled", "Installed"}
                  /\ binary_cache'[p] = Some(call'[p].path)
            /\ IsSome(binary_cache[p]) => IsSome(binary_cache'[p])]_vars

\* A successful install_binary replaces the cached path of another version
\* by the path it returns.
C19_Witness ==
    \E p \in Procs :
        LET c == call[p]
        IN  /\ c.kind \in {"AlreadyInstalled", "Installed"}
            /\ IsSome(c.cache0)
            /\ c.cache0 /= binary_cache[p]
            /\ binary_cache[p] = Some(c.path)

\* C20: cleanup_other_versions runs only after the successful download of
\* a version whose binary was not on disk.  A call that returns
\* AlreadyInstalled, CacheHit, LocalFound or Failed removes no other
\* 'rumdl-' directory.  When the binary of the version the release query
\* returns is on disk alongside older directories, the call leaves them,
\* as does every later such call.
C20_PruneOnlyAfterDownload ==
    \A p \in Procs :
        LET c == call[p]
            log == c.log
            pruned == {log[i].arg : i \in Idx(log, "remove_dir_all")}
                          \ {c.version_dir}
        IN  /\ ("read_dir" \in Ops(log) \/ pruned /= {}) =>
                  /\ DownloadSucceeded(c)
                  /\ ~Exists(c.fs0, c.binary_path, platform)
            /\ (c.pc = "done" /\ c.kind /= "Installed") =>
                  /\ pruned = {}
                  /\ \A e \in OtherVersions(c.version_dir) : fs[e] = c.fs0[e]
            /\ ( /\ c.pc \notin {"idle", "install", "resolved"}
                 /\ c.resolved
                 /\ Exists(c.fs0, c.binary_path, platform) ) =>
                    /\ c.pc = "done"
                    /\ "remove_dir_all" \notin Ops(log)
                    /\ \A e \in Entries : fs[e] = c.fs0[e]

\* The latest version is found on disk while rumdl-old and the directory
\* of another version are there too, after an earlier call of the other
\* instance resolved the same version.
C20_Witness ==
    \E p \in Procs :
        LET c == call[p]
        IN  /\ c.kind = "AlreadyInstalled"
            /\ fs[OldDir] /= "absent"
            /\ \E d \in VersionDirs : d /= c.version_dir /\ fs[d] /= "absent"
            /\ \E q \in Procs : q /= p /\ binary_cache[q] = Some(c.path)

====
